---- MODULE Spec2Model ----
(***************************************************************************)
(* ComposableGraphQueryEngine (llama_index/query_engine/graph_query_engine *)
(* .py): a query is resolved against the root index of a ComposableGraph;  *)
(* every retrieved IndexNode is replaced by the answer of a recursive      *)
(* query of the index it names.  The recursion of _query_index and         *)
(* _fetch_recursive_nodes is modelled with an explicit call stack; every   *)
(* call made to a collaborator (graph, index, query engine, callback       *)
(* manager) is appended to `trace`.                                        *)
(***************************************************************************)
EXTENDS Naturals, Sequences, FiniteSets

\* ---------------------------------------------------------------- bounds
\* Longest node list a retrieve returns.
MaxFrags == 2
\* Deepest call stack of _query_index frames the interpreter allows.
MaxDepth == 2
\* Most IndexNodes the query engines return, all together, during a query.
MaxRefs == 2

\* ------------------------------------------------------------ the values
\* index_id=None of _query and _aquery.
None == "<None>"
\* Identifiers: A names a VectorStoreIndex and B an index of another kind,
\* when the graph holds them; "" is the empty identifier.
AllIds == {"A", "B"}
VectorIds == {"A"}

TextNode(text, score) ==
  [kind |-> "TextNode", text |-> text, index_id |-> "-", score |-> score]
IndexNode(index_id, score) ==
  [kind |-> "IndexNode", text |-> <<"ref", index_id>>, index_id |-> index_id,
   score |-> score]

\* The scored nodes a retrieve may return.
Fragments ==
  {TextNode(<<"hello">>, 5), IndexNode("B", 9), IndexNode("", 4)}
FragSeqs == UNION {[1..n -> Fragments] : n \in 0..MaxFrags}

NoHandler == [custom |-> FALSE, id |-> "-", with_top_k |-> FALSE, top_k |-> 0]
NoResponse == [text |-> <<>>, source_nodes |-> <<>>]

VARIABLES
  root_id,      \* graph.root_id
  indices,      \* the identifiers graph.get_index knows
  custom_query_engines, \* keys of _custom_query_engines
  recursive,    \* _recursive
  similarity_top_k,     \* _similarity_top_k
  status,       \* idle | running | done | failed
  stack,        \* the _query_index frames, the running one last
  trace,        \* every collaborator call, in order
  next_event,   \* the callback manager's next event id
  result,       \* the response _query returned
  error         \* the exception that left _query

vars == <<root_id, indices, custom_query_engines, recursive,
          similarity_top_k, status, stack, trace, next_event, result,
          error>>
config ==
  <<root_id, indices, custom_query_engines, recursive, similarity_top_k>>

NoError == [kind |-> "-", path |-> <<>>, depth |-> 0]

\* The registries the engine is built with: no custom query engine, or one,
\* for the root index or for the other index.
Registries == {{}} \cup {{id} : id \in AllIds}

Init ==
  /\ root_id = "A"
  /\ indices \in SUBSET AllIds
  /\ custom_query_engines \in Registries
  /\ recursive \in BOOLEAN
  /\ similarity_top_k \in {2}
  /\ status = "idle"
  /\ stack = <<>>
  /\ trace = <<>>
  /\ next_event = 1
  /\ result = NoResponse
  /\ error = NoError

\* ------------------------------------------------------------ the frames
\* One activation of _query_index.  path: the positions, from the root
\* frame down, of the IndexNodes whose expansion made the call.
Frame(arg, index_id, level, path, event_id) ==
  [arg |-> arg, index_id |-> index_id, level |-> level, path |-> path,
   pc |-> "select", event_id |-> event_id, retrieve_event_id |-> 0,
   handler |-> NoHandler, nodes |-> <<>>, i |-> 1,
   nodes_for_synthesis |-> <<>>, additional_source_nodes |-> <<>>]

Top == stack[Len(stack)]
SetTop(f) == [stack EXCEPT ![Len(stack)] = f]

\* One collaborator call by frame f.
Entry(op, f) ==
  [op |-> op, path |-> f.path, arg |-> f.arg, id |-> f.index_id,
   level |-> f.level,
   handler |-> f.handler, nodes |-> <<>>, extra |-> <<>>,
   has_extra |-> FALSE, event |-> 0, response |-> NoResponse, ok |-> TRUE]

\* A test for None where the code tests for a falsy identifier.
DefaultIndexIdNoneOnly(arg) == IF arg = None THEN root_id ELSE arg

\* index_id = index_id or self._graph.root_id
DefaultIndexId(arg) == IF arg \in {None, ""} THEN root_id ELSE arg

\* The registry consulted only for the indices that are not vector indices.
UsesCustomUnlessVector(id) ==
  id \in custom_query_engines /\ id \notin VectorIds

\* if index_id in self._custom_query_engines
UsesCustom(id) == id \in custom_query_engines

CustomEngine(id) ==
  [custom |-> TRUE, id |-> id, with_top_k |-> FALSE, top_k |-> 0]

\* get_index(index_id).as_query_engine(similarity_top_k=...) for a
\* VectorStoreIndex, get_index(index_id).as_query_engine() otherwise.
DefaultEngine(id) ==
  IF id \in VectorIds
  THEN [custom |-> FALSE, id |-> id, with_top_k |-> TRUE,
        top_k |-> similarity_top_k]
  ELSE [custom |-> FALSE, id |-> id, with_top_k |-> FALSE, top_k |-> 0]

\* The loop entered whatever the flag says.
AfterRetrieveAlwaysLoop == "loop"

\* if self._recursive: the loop over the nodes, else synthesize at once.
AfterRetrieve == IF recursive THEN "loop" ELSE "synth"

\* The nodes visited from the last to the first.
CursorReversed(f) == Len(f.nodes) + 1 - f.i

\* for node_with_score in nodes: the position the loop is at.
Cursor(f) == f.i

RECURSIVE ConcatTexts(_)
ConcatTexts(nodes) ==
  IF nodes = <<>> THEN <<>>
  ELSE Head(nodes).text \o ConcatTexts(Tail(nodes))

\* query_engine.synthesize(query_bundle, nodes, additional_source_nodes):
\* an answer made of the nodes' texts, and the nodes it was made from.
SynthesizeResult(h, nodes, extra) ==
  [text |-> <<"answer", h.id>> \o ConcatTexts(nodes),
   source_nodes |-> nodes \o extra]

\* str(response)
Str(response) == response.text

\* An exception caught around the recursive call, the node kept as it was.
RaiseCaught(kind) ==
  IF Len(stack) > 1
  THEN LET p == stack[Len(stack) - 1] IN
       /\ stack' = [SubSeq(stack, 1, Len(stack) - 1) EXCEPT
                      ![Len(stack) - 1] =
                        [p EXCEPT !.nodes_for_synthesis = Append(@, p.nodes[p.i]),
                                  !.i = @ + 1]]
       /\ UNCHANGED <<status, error, result>>
  ELSE /\ status' = "failed"
       /\ error' = [kind |-> kind, path |-> Top.path, depth |-> Len(stack)]
       /\ stack' = <<>>
       /\ UNCHANGED result

\* An exception leaves every frame of the query: nothing catches it.
Raise(kind) ==
  /\ status' = "failed"
  /\ error' = [kind |-> kind, path |-> Top.path, depth |-> Len(stack)]
  /\ stack' = <<>>
  /\ UNCHANGED result

\* _query_index, lines 58-61: the identifier, then the QUERY start event.
Call(arg, level, path) ==
  LET f == Frame(arg, DefaultIndexId(arg), level, path, next_event) IN
  /\ stack' = Append(stack, f)
  /\ trace' = Append(trace, [Entry("query_start", f) EXCEPT !.event = next_event])
  /\ next_event' = next_event + 1

\* _query / _aquery
Query ==
  /\ status = "idle"
  /\ status' = "running"
  /\ Call(None, 0, <<>>)
  /\ UNCHANGED <<config, result, error>>

\* _query_index, lines 63-72: the query engine of this visit.
SelectHandler ==
  /\ status = "running"
  /\ Top.pc = "select"
  /\ LET f == Top
         id == f.index_id IN
     IF UsesCustom(id)
     THEN /\ stack' = SetTop([f EXCEPT !.handler = CustomEngine(id),
                                       !.pc = "retrieve"])
          /\ trace' = Append(trace, [Entry("custom_engine", f) EXCEPT
                                       !.handler = CustomEngine(id)])
          /\ UNCHANGED <<status, error, result>>
     ELSE IF id \notin indices
     THEN /\ trace' = Append(trace, [Entry("get_index", f) EXCEPT !.ok = FALSE])
          /\ Raise("KeyError")
     ELSE \E ok \in BOOLEAN :
          LET h == DefaultEngine(id)
              g == Entry("get_index", f)
              e == [Entry("as_query_engine", f) EXCEPT !.handler = h, !.ok = ok]
          IN /\ trace' = trace \o <<g, g, e>>
             /\ IF ok
                THEN /\ stack' = SetTop([f EXCEPT !.handler = h,
                                                  !.pc = "retrieve"])
                     /\ UNCHANGED <<status, error, result>>
                ELSE Raise("EngineError")
  /\ UNCHANGED <<config, next_event>>

\* The IndexNodes among nodes.
IndexNodesOf(nodes) ==
  {i \in 1..Len(nodes) : nodes[i].kind = "IndexNode"}

\* The IndexNodes the retrieves of the query returned so far.
RECURSIVE RefsIn(_)
RefsIn(calls) ==
  IF calls = <<>> THEN 0
  ELSE (IF Head(calls).op = "retrieve"
        THEN Cardinality(IndexNodesOf(Head(calls).nodes)) ELSE 0)
       + RefsIn(Tail(calls))

\* What query_engine.retrieve may return now: any list of nodes, whatever
\* the same engine returned before.
Retrievable ==
  {nodes \in FragSeqs :
     RefsIn(trace) + Cardinality(IndexNodesOf(nodes)) <= MaxRefs}

\* _query_index, lines 74-80: retrieve, between its two events.
Retrieve ==
  /\ status = "running"
  /\ Top.pc = "retrieve"
  /\ LET f == Top
         s == [Entry("retrieve_start", f) EXCEPT !.event = next_event] IN
     /\ next_event' = next_event + 1
     /\ \/ /\ trace' = trace \o <<s, [Entry("retrieve", f) EXCEPT !.ok = FALSE]>>
           /\ Raise("RetrieveError")
        \/ \E nodes \in Retrievable :
           /\ trace' = trace \o
                <<s, [Entry("retrieve", f) EXCEPT !.nodes = nodes],
                  [Entry("retrieve_end", f) EXCEPT !.event = next_event,
                                                   !.nodes = nodes]>>
           /\ stack' = SetTop([f EXCEPT !.retrieve_event_id = next_event,
                                        !.nodes = nodes,
                                        !.pc = AfterRetrieve])
           /\ UNCHANGED <<status, error, result>>
  /\ UNCHANGED config

\* The descent stopped below the first level.
ExpandsFirstLevelOnly(node_with_score, level) ==
  node_with_score.kind = "IndexNode" /\ level < 1

\* An IndexNode with a falsy identifier left as it is.
ExpandsNamedOnly(node_with_score, level) ==
  node_with_score.kind = "IndexNode" /\ node_with_score.index_id # ""

\* isinstance(node_with_score.node, IndexNode); level is passed and not read.
Expands(node_with_score, level) == node_with_score.kind = "IndexNode"

\* The node the loop of lines 86-91 is at, when there is one.
InLoop ==
  /\ status = "running"
  /\ Top.pc = "loop"
  /\ Top.i <= Len(Top.nodes)

\* _fetch_recursive_nodes, lines 127-128, then lines 90-91.
FetchText ==
  /\ InLoop
  /\ LET f == Top
         n == f.nodes[Cursor(f)] IN
     /\ ~Expands(n, f.level)
     /\ stack' = SetTop([f EXCEPT
                           !.nodes_for_synthesis = Append(@, n),
                           !.additional_source_nodes = @ \o <<>>,
                           !.i = @ + 1])
  /\ UNCHANGED <<config, status, trace, next_event, result, error>>

\* _fetch_recursive_nodes, lines 117-120: the recursive call.
FetchIndex ==
  /\ InLoop
  /\ Len(stack) < MaxDepth
  /\ LET f == Top
         n == f.nodes[Cursor(f)] IN
     /\ Expands(n, f.level)
     /\ Call(n.index_id, f.level + 1, Append(f.path, Cursor(f)))
  /\ UNCHANGED <<config, status, result, error>>

\* The recursive call that the interpreter's stack has no room for.
StackExhausted ==
  /\ InLoop
  /\ Len(stack) >= MaxDepth
  /\ Expands(Top.nodes[Cursor(Top)], Top.level)
  /\ Raise("RecursionError")
  /\ UNCHANGED <<config, trace, next_event>>

\* The QUERY end event sent with the id of the RETRIEVE event.
QueryEndEventIdOfRetrieve(f) == f.retrieve_event_id

\* event_id of the QUERY end event, lines 98-102.
QueryEndEventId(f) == f.event_id

\* The new node made without the score of the node it replaces.
ExpandedNoScore(node_with_score, response) ==
  <<TextNode(Str(response), 0), response.source_nodes>>

\* _fetch_recursive_nodes, lines 122-126: the node that stands for the
\* answer of the index, and the nodes the answer came from.
Expanded(node_with_score, response) ==
  <<TextNode(Str(response), node_with_score.score), response.source_nodes>>

\* return response, line 103: to _query, or to _fetch_recursive_nodes, which
\* hands the new node and the sources to the loop of the caller (lines
\* 122-126, then 90-91).
Return(response) ==
  IF Len(stack) = 1
  THEN /\ status' = "done"
       /\ result' = response
       /\ stack' = <<>>
  ELSE LET p == stack[Len(stack) - 1]
           x == Expanded(p.nodes[Cursor(p)], response)
       IN /\ stack' = [SubSeq(stack, 1, Len(stack) - 1) EXCEPT
                         ![Len(stack) - 1] =
                           [p EXCEPT
                              !.nodes_for_synthesis = Append(@, x[1]),
                              !.additional_source_nodes = @ \o x[2],
                              !.i = @ + 1]]
          /\ UNCHANGED <<status, result>>

\* _query_index, lines 92-103: synthesize, the QUERY end event, and the
\* return of the response.
Synthesize ==
  /\ status = "running"
  /\ \/ Top.pc = "loop" /\ Top.i > Len(Top.nodes)
     \/ Top.pc = "synth"
  /\ LET f == Top
         rec == f.pc = "loop"
         nodes == IF rec THEN f.nodes_for_synthesis ELSE f.nodes
         extra == IF rec THEN f.additional_source_nodes ELSE <<>>
         r == SynthesizeResult(f.handler, nodes, extra)
         c == [Entry("synthesize", f) EXCEPT !.nodes = nodes, !.extra = extra,
                                             !.has_extra = rec]
     IN \/ /\ trace' = Append(trace, [c EXCEPT !.ok = FALSE])
           /\ Raise("SynthesizeError")
        \/ /\ trace' = trace \o
                <<[c EXCEPT !.response = r],
                  [Entry("query_end", f) EXCEPT !.event = QueryEndEventId(f),
                                                !.response = r]>>
           /\ Return(r)
           /\ UNCHANGED error
  /\ UNCHANGED <<config, next_event>>

Next ==
  \/ Query
  \/ SelectHandler
  \/ Retrieve
  \/ FetchText
  \/ FetchIndex
  \/ StackExhausted
  \/ Synthesize

Spec == Init /\ [][Next]_vars

\* Termination is claimed of a query whose steps are taken.
FairSpec == Spec /\ WF_vars(Next)

\* ------------------------------------------------------ reading the trace
TraceIdx == 1..Len(trace)
At(op) == {k \in TraceIdx : trace[k].op = op}
AtPath(op, p) == {k \in At(op) : trace[k].path = p}
Last(p) == p[Len(p)]
Parent(p) == SubSeq(p, 1, Len(p) - 1)
IsPrefix(p, q) == Len(p) <= Len(q) /\ SubSeq(q, 1, Len(p)) = p
IsProperPrefix(p, q) == Len(p) < Len(q) /\ SubSeq(q, 1, Len(p)) = p

\* The response the resolve of frame p gave: what its synthesize returned.
ResponseOf(p) ==
  trace[CHOOSE k \in AtPath("synthesize", p) : trace[k].ok].response
Resolved(p) == \E k \in AtPath("synthesize", p) : trace[k].ok

RECURSIVE ChildSources(_, _, _)
ChildSources(p, nodes, i) ==
  IF i > Len(nodes) THEN <<>>
  ELSE (IF nodes[i].kind = "IndexNode"
        THEN ResponseOf(Append(p, i)).source_nodes
        ELSE <<>>) \o ChildSources(p, nodes, i + 1)

C2_NoRecursion ==
  ~recursive =>
    /\ \A k \in TraceIdx : trace[k].path = <<>> /\ trace[k].id = root_id
    /\ Cardinality(At("query_start")) <= 1
    /\ Cardinality(At("retrieve")) <= 1
    /\ Cardinality(At("synthesize")) <= 1
    /\ \A k \in At("synthesize") :
         \E j \in At("retrieve") :
           /\ j < k
           /\ trace[k].nodes = trace[j].nodes
           /\ trace[k].handler = trace[j].handler
           /\ ~trace[k].has_extra
           /\ trace[k].extra = <<>>
    /\ status = "done" =>
         /\ Cardinality(At("retrieve")) = 1
         /\ Cardinality(At("synthesize")) = 1
         /\ result = ResponseOf(<<>>)

\* A query without recursion that returned although an IndexNode was
\* retrieved.
C2_Witness ==
  /\ ~recursive
  /\ status = "done"
  /\ \E j \in At("retrieve") :
       \E i \in 1..Len(trace[j].nodes) : trace[j].nodes[i].kind = "IndexNode"

\* ------------------------------------------------------------------- C3
\* C3 as stated: a resolve of an identifier the graph does not hold makes
\* the query fail, and neither its frame nor a frame above it synthesizes.
C3_UnknownAlwaysFails ==
  \A k \in At("query_start") :
    trace[k].id \notin indices =>
      /\ status # "done"
      /\ \A j \in At("synthesize") : ~IsPrefix(trace[j].path, trace[k].path)

\* C3, amended: a resolve of an identifier (the empty one standing for the
\* root's) that the graph does not hold and that has no custom query engine
\* makes the query fail with the graph's lookup error: the lookup is the
\* last call of the query, and neither that frame nor a frame above it
\* synthesizes.
C3_UnknownUnregisteredFails ==
  \A k \in At("query_start") :
    (trace[k].id \notin indices /\ trace[k].id \notin custom_query_engines) =>
      /\ status \in {"running", "failed"}
      /\ \A j \in At("synthesize") : ~IsPrefix(trace[j].path, trace[k].path)
      /\ Len(trace) <= k + 1
      /\ (status = "running") = (Len(trace) = k)
      /\ Len(trace) = k + 1 =>
           /\ trace[k + 1].op = "get_index"
           /\ ~trace[k + 1].ok
           /\ trace[k + 1].path = trace[k].path
           /\ error.kind = "KeyError"
           /\ result = NoResponse

\* The lookup of an identifier named by an IndexNode failed, below the root.
C3_Witness ==
  /\ status = "failed"
  /\ error.kind = "KeyError"
  /\ Len(error.path) = 1
  /\ \E k \in At("query_start") :
       trace[k].path = error.path /\ trace[k].arg = "B"

\* ------------------------------------------------------------------- C4
\* The engine a frame for identifier id must work with.
EngineFor(id) ==
  IF id \in custom_query_engines
  THEN [custom |-> TRUE, id |-> id, with_top_k |-> FALSE, top_k |-> 0]
  ELSE [custom |-> FALSE, id |-> id, with_top_k |-> id \in VectorIds,
        top_k |-> IF id \in VectorIds THEN similarity_top_k ELSE 0]

\* C4: a frame whose identifier has a custom query engine retrieves and
\* synthesizes with that engine and makes no get_index or as_query_engine
\* call, whatever the kind of the index; any other frame looks the index up
\* and builds its engine with as_query_engine, passing similarity_top_k
\* exactly when the index is a VectorStoreIndex, before it retrieves.
C4_EngineSelection ==
  /\ \A k \in At("retrieve") \cup At("synthesize") :
       trace[k].handler = EngineFor(trace[k].id)
  /\ \A k \in At("get_index") \cup At("as_query_engine") :
       trace[k].id \notin custom_query_engines
  /\ \A k \in At("as_query_engine") :
       /\ trace[k].handler = EngineFor(trace[k].id)
       /\ trace[k].handler.with_top_k = (trace[k].id \in VectorIds)
       /\ trace[k].handler.with_top_k => trace[k].handler.top_k = similarity_top_k
  /\ \A k \in At("retrieve") :
       IF trace[k].id \in custom_query_engines
       THEN \E j \in AtPath("custom_engine", trace[k].path) : j < k
       ELSE /\ \E j \in AtPath("as_query_engine", trace[k].path) : j < k
            /\ \E j \in AtPath("get_index", trace[k].path) : j < k

\* A query answered with the custom engine of a vector index the graph
\* holds and with the default engine of the other index.
C4_Witness ==
  /\ status = "done"
  /\ "A" \in custom_query_engines /\ "A" \in indices
  /\ \E k \in At("synthesize") :
       trace[k].id = "A" /\ trace[k].handler.custom
  /\ \E k \in At("synthesize") :
       trace[k].id = "B" /\ ~trace[k].handler.custom /\ trace[k].ok

\* ------------------------------------------------------------------- C5
ErrorOf(op) ==
  CASE op = "get_index" -> "KeyError"
    [] op = "as_query_engine" -> "EngineError"
    [] op = "retrieve" -> "RetrieveError"
    [] op = "synthesize" -> "SynthesizeError"
    [] OTHER -> "-"

\* C5: a collaborator call that fails is the last call of the query: the
\* query has failed with the error of that call, raised in the frame that
\* made it, no frame is left running and no response is returned; and a
\* query fails only so, or by exhausting the stack.
C5_FailurePropagates ==
  /\ \A k \in TraceIdx :
       ~trace[k].ok =>
         /\ k = Len(trace)
         /\ status = "failed"
         /\ error.kind = ErrorOf(trace[k].op)
         /\ error.path = trace[k].path
  /\ status = "failed" =>
       /\ stack = <<>>
       /\ result = NoResponse
       /\ error.kind # "RecursionError" => ~trace[Len(trace)].ok

\* A retrieve failed while the first of two IndexNodes of the root was
\* being expanded.
C5_Witness ==
  /\ status = "failed"
  /\ error.kind = "RetrieveError"
  /\ error.path = <<1>>
  /\ \E j \in AtPath("retrieve", <<>>) :
       /\ Len(trace[j].nodes) = 2
       /\ trace[j].nodes[2].kind = "IndexNode"

\* ------------------------------------------------------------------- C6
\* The first position at which two paths differ.
RECURSIVE Fork(_, _)
Fork(p, q) ==
  IF p = <<>> \/ q = <<>> \/ Head(p) # Head(q) THEN <<p, q>>
  ELSE Fork(Tail(p), Tail(q))

OpeningOps ==
  {"query_start", "custom_engine", "get_index", "as_query_engine",
   "retrieve_start", "retrieve", "retrieve_end"}
ClosingOps == {"synthesize", "query_end"}

\* C6: the calls are made depth first and from left to right: a frame's
\* retrieve comes before every call made below it, its synthesize after
\* all of them, and every call made below an earlier node comes before every
\* call made below a later node; and only the newest frame runs: each frame
\* under it is waiting, in its loop, at the IndexNode the frame above it
\* expands.
C6_DepthFirstLeftToRight ==
  /\ \A p \in {trace[k].path : k \in TraceIdx} :
       LET cp == {k \in TraceIdx : trace[k].path = p} IN
       \A q \in {trace[k].path : k \in TraceIdx} \ {p} :
         LET d == Fork(p, q)
             cq == {k \in TraceIdx : trace[k].path = q}
         IN /\ d[1] = <<>> =>
                 \A a \in cp :
                   /\ trace[a].op \in OpeningOps \cup ClosingOps
                   /\ IF trace[a].op \in OpeningOps
                      THEN \A b \in cq : a < b
                      ELSE \A b \in cq : b < a
            /\ (d[1] # <<>> /\ d[2] # <<>> /\ Head(d[1]) < Head(d[2])) =>
                 \A a \in cp, b \in cq : a < b
  /\ \A n \in 1..(Len(stack) - 1) :
       /\ stack[n].pc = "loop"
       /\ Parent(stack[n + 1].path) = stack[n].path
       /\ Last(stack[n + 1].path) \in 1..Len(stack[n].nodes)
       /\ stack[n].nodes[Last(stack[n + 1].path)].kind = "IndexNode"
       /\ stack[n + 1].level = stack[n].level + 1
       /\ AtPath("retrieve", stack[n].path) # {}
       /\ AtPath("synthesize", stack[n].path) = {}

\* Two IndexNodes of the root were both resolved, and the root synthesized.
C6_Witness ==
  /\ status = "done"
  /\ Resolved(<<1>>)
  /\ Resolved(<<2>>)
  /\ Resolved(<<>>)

\* ------------------------------------------------------------------- C7
\* The IndexNodes retrieved during the query: <<call, position>>.
RetrievedIndexNodes ==
  {c \in TraceIdx \X (1..MaxFrags) :
     /\ trace[c[1]].op = "retrieve"
     /\ c[2] <= Len(trace[c[1]].nodes)
     /\ trace[c[1]].nodes[c[2]].kind = "IndexNode"}
NamedBy(c) ==
  LET id == trace[c[1]].nodes[c[2]].index_id IN
  IF id = "" THEN root_id ELSE id

\* The identifiers the IndexNodes retrieved for identifier i lead to.
Targets(i) ==
  {NamedBy(c) : c \in {r \in RetrievedIndexNodes : trace[r[1]].id = i}}
Step(S) == S \cup UNION {Targets(j) : j \in S}
RECURSIVE Closure(_)
Closure(S) == IF Step(S) = S THEN S ELSE Closure(Step(S))
OnCycle(i) == i \in Closure(Targets(i))
ReachesCycle(i) == \E j \in Closure({i}) : OnCycle(j)
Cyclic == \E k \in At("retrieve") : OnCycle(trace[k].id)

\* Every retrieve for an identifier returned what the first one returned.
SameNodesPerIdentifier ==
  \A j, k \in At("retrieve") :
    (trace[j].ok /\ trace[k].ok /\ trace[j].id = trace[k].id) =>
      trace[j].nodes = trace[k].nodes

\* C7 as stated: with recursive=true, once the retrieved IndexNodes lead
\* from an identifier back to itself the query returns no response and the
\* root never synthesizes.
C7_CycleAlwaysDiverges ==
  (recursive /\ Cyclic) =>
    /\ status # "done"
    /\ AtPath("synthesize", <<>>) = {}

\* C7, amended: with recursive=true and every retrieve for an identifier
\* returning the same nodes, once the retrieved IndexNodes lead from an
\* identifier back to itself the query returns no response: no frame whose
\* identifier leads into the cycle synthesizes, the root among them, and
\* the descent ends only with a failed call or with the stack full, at
\* whatever level that is.
C7_StableCycleNeverReturns ==
  (recursive /\ SameNodesPerIdentifier) =>
    /\ \A k \in At("synthesize") : ~ReachesCycle(trace[k].id)
    /\ Cyclic =>
         /\ status # "done"
         /\ result = NoResponse
         /\ AtPath("synthesize", <<>>) = {}
         /\ ReachesCycle(root_id)
         /\ (status = "failed" /\ error.kind = "RecursionError") =>
              /\ error.depth = MaxDepth
              /\ Len(error.path) = MaxDepth - 1

\* The root led to B and B back to the root, each time with the same
\* nodes; the stack ran full.
C7_Witness ==
  /\ recursive
  /\ SameNodesPerIdentifier
  /\ status = "failed"
  /\ error.kind = "RecursionError"
  /\ "B" \in Targets("A")
  /\ "A" \in Targets("B")

\* ------------------------------------------------------------------- C8
HookOps == {"query_start", "retrieve_start", "retrieve_end", "query_end"}
IsHookOf(p, e) == e.path = p /\ e.op \in HookOps
HookEvents(p) == SelectSeq(trace, LAMBDA e : IsHookOf(p, e))
Only(op, p) == CHOOSE k \in AtPath(op, p) : TRUE

\* C8: in a query that returned, the callback manager got from every frame
\* exactly QUERY start, RETRIEVE start, RETRIEVE end, QUERY end, in this
\* order, each end with the event id its start returned and no id given
\* twice; every call of a child frame lies between the RETRIEVE end and
\* the QUERY end of its parent; QUERY starts and QUERY ends are as many.
C8_HookEvents ==
  status = "done" =>
    /\ \A k \in At("query_start") :
         LET p == trace[k].path
             h == HookEvents(p)
         IN /\ Len(h) = 4
            /\ <<h[1].op, h[2].op, h[3].op, h[4].op>> =
                 <<"query_start", "retrieve_start", "retrieve_end", "query_end">>
            /\ h[4].event = h[1].event
            /\ h[3].event = h[2].event
            /\ h[4].response = ResponseOf(p)
            /\ \A j \in TraceIdx :
                 IsProperPrefix(p, trace[j].path) =>
                   Only("retrieve_end", p) < j /\ j < Only("query_end", p)
    /\ \A j, k \in At("query_start") \cup At("retrieve_start") :
         j # k => trace[j].event # trace[k].event
    /\ Cardinality(At("query_start")) = Cardinality(At("query_end"))
    /\ \A k \in TraceIdx : \E j \in At("query_start") : trace[j].path = trace[k].path

\* A query with recursion that returned after three frames.
C8_Witness ==
  /\ status = "done"
  /\ recursive
  /\ Cardinality(At("query_end")) = 3

\* ------------------------------------------------------------------- C9
C9_Counts ==
  LET n == Cardinality(At("query_start")) IN
  /\ n = 1 + Cardinality(RetrievedIndexNodes)
  /\ Cardinality(At("retrieve")) = n
  /\ Cardinality(At("synthesize")) = n
  /\ Cardinality(At("custom_engine") \cup At("as_query_engine")) = n
  /\ \A k \in At("query_start") :
       /\ Cardinality(AtPath("retrieve", trace[k].path)) = 1
       /\ Cardinality(AtPath("synthesize", trace[k].path)) = 1
       /\ Cardinality(AtPath("custom_engine", trace[k].path)
                      \cup AtPath("as_query_engine", trace[k].path)) = 1
  /\ \A x \in AllIds :
       Cardinality({k \in At("query_start") : trace[k].id = x}) =
         (IF x = root_id THEN 1 ELSE 0)
         + Cardinality({c \in RetrievedIndexNodes : NamedBy(c) = x})

C9_Safety ==
  /\ (status = "failed" /\ error.kind = "RecursionError") =>
       recursive /\ Cyclic
  /\ (status = "failed" /\ error.kind # "RecursionError") =>
       ~trace[Len(trace)].ok
  /\ (status = "done" /\ recursive) => C9_Counts

\* C9: a query ends, and with recursive=true it ends with a response
\* unless a collaborator call failed (the lookup of an identifier the
\* graph does not hold among them) or the retrieved IndexNodes led from
\* an identifier back to itself; the query that returned has made one
\* resolve, with one engine selection, one retrieve and one synthesize of
\* its own, for the root and for every IndexNode retrieved, so an index
\* named by k IndexNodes was resolved k times.
C9_TerminatesWithCounts ==
  /\ []C9_Safety
  /\ <>(status \in {"done", "failed"})

\* A query that returned after resolving B twice, for two IndexNodes.
C9_Witness ==
  /\ status = "done"
  /\ recursive
  /\ root_id # "B"
  /\ Cardinality({k \in At("query_start") : trace[k].id = "B"}) = 2

\* ------------------------------------------------------------------ C10
\* C10: the root frame is called without an identifier and every other
\* frame with the identifier of the IndexNode it expands; a frame works on
\* the root identifier when it was called without an identifier or with
\* the empty one, and on the identifier it was called with otherwise; the
\* engine it retrieves from is the engine of that identifier.
C10_IdentifierDefault ==
  /\ \A k \in At("query_start") :
       LET e == trace[k] IN
       /\ e.id = (IF e.arg = None \/ e.arg = "" THEN root_id ELSE e.arg)
       /\ (e.arg = None) = (e.path = <<>>)
       /\ e.level = Len(e.path)
       /\ e.path # <<>> =>
            \E j \in AtPath("retrieve", Parent(e.path)) :
              LET n == trace[j].nodes[Last(e.path)] IN
              /\ j < k
              /\ n.kind = "IndexNode"
              /\ n.index_id = e.arg
  /\ \A s \in At("query_start") :
       \A k \in AtPath("retrieve", trace[s].path)
                 \cup AtPath("synthesize", trace[s].path) :
         /\ trace[k].id = trace[s].id
         /\ trace[k].handler.id = trace[s].id

\* An IndexNode with the empty identifier was resolved against the root
\* index, and an IndexNode naming B against B.
C10_Witness ==
  /\ \E k \in At("query_start") :
       /\ trace[k].arg = ""
       /\ trace[k].id = "A"
       /\ \E j \in AtPath("retrieve", trace[k].path) : trace[j].ok
  /\ \E k \in At("query_start") :
       /\ trace[k].arg = "B"
       /\ \E j \in AtPath("retrieve", trace[k].path) :
            trace[j].ok /\ trace[j].handler.id = "B"

====
